---- MODULE Spec2Model ----
(***************************************************************************)
(* Model of nytl's dense matrix operations (nytl/bits/mat.inl): pivot,     *)
(* luDecomposition, det, refMat, rrefMat, analyzeRefMat, and of the        *)
(* lifetime observer (nytl/observe.hpp): Observable and ObservingPtr, and   *)
(* of the reference counter (nytl/referenced.hpp): Referenced.             *)
(*                                                                         *)
(* Scalars are C++ doubles.  Rounding is not modelled: a finite value is   *)
(* an exact fraction n/d in lowest terms with d > 0.  The non-finite       *)
(* values a division by zero produces are modelled: d = 0 with n = 1 is    *)
(* +inf, n = -1 is -inf and n = 0 is NaN.  Zero is unsigned.               *)
(* Indices are 0-based as in the source.                                   *)
(***************************************************************************)
EXTENDS Integers, Sequences, FiniteSets, TLC

\* ------------------------------------------------------------------ bounds
\* largest dimension of the enumerated square inputs
MaxD == 3
\* entries of the enumerated matrices of dimension <= 2 lie in -MaxVal..MaxVal
MaxVal == 2
\* how many times in a row pivot is applied to the working copy
MaxPivotCalls == 2
\* the enumerated inputs of refMat and rrefMat have at most MaxR rows, at most
\* MaxC columns and at most MaxCells entries
MaxR == 3
MaxC == 3
MaxCells == 9
\* the number of ObservingPtr objects and of Observable objects
NumPtrs == 2
NumObjs == 2
\* the number of threads that call ref and unref on one Referenced object,
\* and the largest reference count they build up
NumThreads == 2
MaxRefs == 3

\* ----------------------------------------------------------------- scalars
Zero == [n |-> 0, d |-> 1]
One == [n |-> 1, d |-> 1]
NaN == [n |-> 0, d |-> 0]
PInf == [n |-> 1, d |-> 0]
NInf == [n |-> -1, d |-> 0]

AbsInt(k) == IF k < 0 THEN -k ELSE k

RECURSIVE GCD(_, _)
GCD(a, b) == IF b = 0 THEN a ELSE GCD(b, a % b)

\* the fraction n/d (d # 0) in lowest terms with a positive denominator
Frac(n, d) ==
    LET s == IF d < 0 THEN -1 ELSE 1
        g == GCD(AbsInt(n), AbsInt(d))
    IN  [n |-> (s * n) \div g, d |-> (s * d) \div g]

Int2Num(k) == [n |-> k, d |-> 1]

IsNaN(a) == a.d = 0 /\ a.n = 0
IsFinite(a) == a.d # 0
Sgn(a) == IF a.n > 0 THEN 1 ELSE IF a.n < 0 THEN -1 ELSE 0

\* double operator+
Add(a, b) ==
    IF IsNaN(a) \/ IsNaN(b) THEN NaN
    ELSE IF a.d = 0 THEN (IF b.d = 0 /\ b.n # a.n THEN NaN ELSE a)
    ELSE IF b.d = 0 THEN b
    ELSE Frac(a.n * b.d + b.n * a.d, a.d * b.d)

\* double unary minus
Neg(a) == [n |-> -a.n, d |-> a.d]

\* double operator-
Sub(a, b) == Add(a, Neg(b))

\* double operator*
Mul(a, b) ==
    IF IsNaN(a) \/ IsNaN(b) THEN NaN
    ELSE IF a.d = 0 \/ b.d = 0
         THEN (IF Sgn(a) * Sgn(b) = 0 THEN NaN ELSE [n |-> Sgn(a) * Sgn(b), d |-> 0])
    ELSE Frac(a.n * b.n, a.d * b.d)

\* double operator/ : x/0 is +-inf, 0/0 and inf/inf are NaN, x/inf is 0
Div(a, b) ==
    IF IsNaN(a) \/ IsNaN(b) THEN NaN
    ELSE IF a.d = 0
         THEN (IF b.d = 0 THEN NaN
               ELSE [n |-> a.n * (IF b.n < 0 THEN -1 ELSE 1), d |-> 0])
    ELSE IF b.d = 0 THEN Zero
    ELSE IF b.n = 0 THEN [n |-> Sgn(a), d |-> 0]
    ELSE Frac(a.n * b.d, a.d * b.n)

\* std::abs
AbsNum(a) == [n |-> AbsInt(a.n), d |-> a.d]

\* double operator> : false when either side is NaN
Gt(a, b) ==
    IF IsNaN(a) \/ IsNaN(b) THEN FALSE
    ELSE IF a.d = 0 THEN a.n = 1 /\ b # PInf
    ELSE IF b.d = 0 THEN b.n = -1
    ELSE a.n * b.d > b.n * a.d

\* x != 0 : true for NaN and the infinities
NonZero(a) == ~(a.d # 0 /\ a.n = 0)

\* ---------------------------------------------------------------- matrices
\* a matrix is a function [0..R-1 -> [0..C-1 -> scalar]], read m[row][col]
Rows(m) == Cardinality(DOMAIN m)
Cols(m) == Cardinality(DOMAIN m[0])

\* the matrix with the given rows of integers
FromRows(s) ==
    [i \in 0..(Len(s) - 1) |-> [j \in 0..(Len(s[1]) - 1) |-> Int2Num(s[i + 1][j + 1])]]

\* all R x C matrices with entries in the integer set vals
MatSet(R, C, vals) ==
    [0..(R - 1) -> [0..(C - 1) -> {Int2Num(v) : v \in vals}]]

swapRow(m, a, b) == [m EXCEPT ![a] = m[b], ![b] = m[a]]

identityMat(D) == [i \in 0..(D - 1) |-> [j \in 0..(D - 1) |-> IF i = j THEN One ELSE Zero]]

\* mat<D, D, P>::fill(0)
zeroMat(D) == [i \in 0..(D - 1) |-> [j \in 0..(D - 1) |-> Zero]]

\* weight(ma.row(r) * mb.col(c)): the sum of the elementwise products
RECURSIVE dotSum(_, _, _, _, _)
dotSum(ma, mb, r, c, k) ==
    IF k = 0 THEN Zero
    ELSE Add(dotSum(ma, mb, r, c, k - 1), Mul(ma[r][k - 1], mb[k - 1][c]))

\* operator*(mat, mat)
matMul(ma, mb) ==
    [r \in DOMAIN ma |-> [c \in DOMAIN mb[0] |-> dotSum(ma, mb, r, c, Cols(ma))]]

\* ------------------------------------------------------------------- pivot
\* pivotMaxR with >= for >: on a tie the later row wins
RECURSIVE pivotMaxRTies(_, _, _, _)
pivotMaxRTies(m, c, r, maxR) ==
    IF r >= Rows(m) THEN maxR
    ELSE pivotMaxRTies(m, c, r + 1,
            IF ~Gt(AbsNum(m[maxR][c]), AbsNum(m[r][c])) THEN r ELSE maxR)

\* pivotMaxR with < for >: the smallest entry wins
RECURSIVE pivotMaxRMin(_, _, _, _)
pivotMaxRMin(m, c, r, maxR) ==
    IF r >= Rows(m) THEN maxR
    ELSE pivotMaxRMin(m, c, r + 1,
            IF Gt(AbsNum(m[maxR][c]), AbsNum(m[r][c])) THEN r ELSE maxR)

\* the inner loop of pivot: the first row in r..R-1 whose entry in column c
\* is strictly larger in absolute value than that of every row before it
RECURSIVE pivotMaxR(_, _, _, _)
pivotMaxR(m, c, r, maxR) ==
    IF r >= Rows(m) THEN maxR
    ELSE pivotMaxR(m, c, r + 1,
            IF Gt(AbsNum(m[r][c]), AbsNum(m[maxR][c])) THEN r ELSE maxR)

\* pivotCol without "ret *= -1"
pivotColNoSign(st, c) ==
    LET maxR == pivotMaxR(st.m, c, c, c)
    IN  IF maxR # c
        THEN [m |-> swapRow(st.m, c, maxR),
              ret |-> st.ret,
              swaps |-> st.swaps + 1,
              perm |-> [st.perm EXCEPT ![c] = st.perm[maxR], ![maxR] = st.perm[c]]]
        ELSE st

\* one column of pivot.  st.m and st.ret are the function's m and ret;
\* st.swaps counts the swapRow calls and st.perm[i] is the input row now
\* standing in row i (bookkeeping the claims are stated with).
pivotCol(st, c) ==
    LET maxR == pivotMaxR(st.m, c, c, c)
    IN  IF maxR # c
        THEN [m |-> swapRow(st.m, c, maxR),
              ret |-> st.ret * (-1),
              swaps |-> st.swaps + 1,
              perm |-> [st.perm EXCEPT ![c] = st.perm[maxR], ![maxR] = st.perm[c]]]
        ELSE st

RECURSIVE pivotLoop(_, _)
pivotLoop(st, c) ==
    IF c >= Cols(st.m) THEN st ELSE pivotLoop(pivotCol(st, c), c + 1)

pivot(m) ==
    pivotLoop([m |-> m, ret |-> 1, swaps |-> 0, perm |-> [i \in DOMAIN m |-> i]], 0)

\* --------------------------------------------------------- luDecomposition
\* vsum after the loop "for k < n: vsum += lu[1][k][c] * lu[0][r][k]"
RECURSIVE luSum(_, _, _, _)
luSum(f, r, c, n) ==
    IF n = 0 THEN Zero
    ELSE Add(luSum(f, r, c, n - 1), Mul(f.u[n - 1][c], f.l[r][n - 1]))

\* luCell with "lu[1][r][c] = m[r][c]": vsum is not subtracted
luCellNoSum(m, f, r, c) ==
    IF c >= r
    THEN [f EXCEPT !.u[r][c] = m[r][c]]
    ELSE [f EXCEPT !.l[r][c] = Div(Sub(m[r][c], luSum(f, r, c, c)), f.u[c][c])]

\* the body of the two loops for one (r, c); f.l is lu[0] and f.u is lu[1]
\* the cell on the diagonal goes to L instead of U
luCellDiagonalToL(m, f, r, c) ==
    IF c > r
    THEN [f EXCEPT !.u[r][c] = Sub(m[r][c], luSum(f, r, c, r))]
    ELSE [f EXCEPT !.l[r][c] = Div(Sub(m[r][c], luSum(f, r, c, c)), f.u[c][c])]

luCell(m, f, r, c) ==
    IF c >= r
    THEN [f EXCEPT !.u[r][c] = Sub(m[r][c], luSum(f, r, c, r))]
    ELSE [f EXCEPT !.l[r][c] = Div(Sub(m[r][c], luSum(f, r, c, c)), f.u[c][c])]

\* the loops over r and c, i = r * D + c
RECURSIVE luLoop(_, _, _)
luLoop(m, f, i) ==
    LET D == Rows(m)
    IN  IF i >= D * D THEN f
        ELSE luLoop(m, luCell(m, f, i \div D, i % D), i + 1)

luDecomposition(m) ==
    luLoop(m, [l |-> identityMat(Rows(m)), u |-> zeroMat(Rows(m))], 0)

\* --------------------------------------------------------------------- det
RECURSIVE diagonalMultLoop(_, _)
diagonalMultLoop(m, n) ==
    IF n = 0 THEN One ELSE Mul(diagonalMultLoop(m, n - 1), m[n - 1][n - 1])

diagonalMult(m) == diagonalMultLoop(m, Rows(m))

det(m) ==
    LET p == pivot(m)
        luMats == luDecomposition(p.m)
    IN  Mul(Mul(diagonalMult(luMats.l), diagonalMult(luMats.u)), Int2Num(p.ret))

\* ----------------------------------------------------------------- inverse
\* nytl::mat::inverse is declared in nytl/matOps.hpp, which is not among the
\* sources; it is modelled from the specification (section 4.5).

\* sum of row[k] * x[k] for lo <= k < hi
RECURSIVE rowDot(_, _, _, _)
rowDot(row, x, lo, hi) ==
    IF hi <= lo THEN Zero
    ELSE Add(rowDot(row, x, lo, hi - 1), Mul(row[hi - 1], x[hi - 1]))

\* forward substitution, rows r..D-1: y[r] = (b[r] - sum_{k<r} L[r][k] y[k]) / L[r][r]
RECURSIVE forwardSub(_, _, _, _)
forwardSub(L, b, y, r) ==
    IF r >= Rows(L) THEN y
    ELSE forwardSub(L, b,
            [y EXCEPT ![r] = Div(Sub(b[r], rowDot(L[r], y, 0, r)), L[r][r])], r + 1)

\* back substitution, rows r..0: x[r] = (y[r] - sum_{k>r} U[r][k] x[k]) / U[r][r]
RECURSIVE backSub(_, _, _, _)
backSub(U, y, x, r) ==
    IF r < 0 THEN x
    ELSE backSub(U, y,
            [x EXCEPT ![r] = Div(Sub(y[r], rowDot(U[r], x, r + 1, Rows(U))), U[r][r])], r - 1)

\* inverse(L, U): fails when a diagonal entry of U is zero; otherwise column
\* i of the result solves L y = e_i, U x = y
inverseLU(L, U) ==
    LET D == Rows(U)
        cols == [i \in 0..(D - 1) |->
                    LET e == identityMat(D)[i]
                        y == forwardSub(L, e, e, 0)
                    IN  backSub(U, y, y, D - 1)]
    IN  IF \E i \in 0..(D - 1) : U[i][i] = Zero
        THEN [err |-> "invalid_argument", val |-> zeroMat(D)]
        ELSE [err |-> "none",
              val |-> [r \in 0..(D - 1) |-> [c \in 0..(D - 1) |-> cols[c][r]]]]

\* the permutation matrix of pivot's row permutation: P m is the pivoted m
permMat(perm) ==
    [i \in DOMAIN perm |-> [j \in DOMAIN perm |-> IF perm[i] = j THEN One ELSE Zero]]

\* inverse(A) = inverse(L, U) P for the factors of the pivoted A
inverseMat(a) ==
    LET p == pivot(a)
        f == luDecomposition(p.m)
        i == inverseLU(f.l, f.u)
    IN  IF i.err # "none" THEN i
        ELSE [err |-> "none", val |-> matMul(i.val, permMat(p.perm))]

\* ============================================================ refMat, rrefMat
\* v / x for a row v
rowDiv(v, x) == [j \in DOMAIN v |-> Div(v[j], x)]

\* v -= f * w for rows v and w
rowSubMul(v, f, w) == [j \in DOMAIN v |-> Sub(v[j], Mul(f, w[j]))]

\* the values a read outside the matrix may deliver
Garbage == {Zero, One, NaN}

\* refMat, lines 167-172: the row of largest absolute value in column c
\* among r and the rows below it
RECURSIVE refMaxR(_, _, _, _)
refMaxR(mt, c, r2, maxR) ==
    IF r2 >= Rows(mt) THEN maxR
    ELSE refMaxR(mt, c, r2 + 1,
            IF Gt(AbsNum(mt[r2][c]), AbsNum(mt[maxR][c])) THEN r2 ELSE maxR)

\* refMat, lines 165-183: the loop "for(; c < C; ++c)".  kind is "pivot"
\* when it breaks at a nonzero pivot, "return" when it returns at the last
\* column, "exhausted" when c < C is false (only on entry).
RECURSIVE refFind(_, _, _)
refFind(mt, r, c) ==
    IF c >= Cols(mt) THEN [kind |-> "exhausted", c |-> c, maxR |-> r]
    ELSE LET maxR == refMaxR(mt, c, r + 1, r)
         IN  IF NonZero(mt[maxR][c]) THEN [kind |-> "pivot", c |-> c, maxR |-> maxR]
             ELSE IF c = Cols(mt) - 1 THEN [kind |-> "return", c |-> c, maxR |-> maxR]
             ELSE refFind(mt, r, c + 1)

\* refMat, lines 163-194: one iteration of the loop over r.  When c >= C the
\* reads of m[r][c] and m[r2][c] lie outside the matrix: gs[i] is what the
\* read of m[i][c] delivers.
refRow(mt, r, c, gs) ==
    LET f == refFind(mt, r, c)
    IN  IF f.kind = "return"
        THEN [m |-> mt, r |-> r, c |-> f.c, done |-> TRUE, oob |-> FALSE]
        ELSE LET m1 == IF f.kind = "pivot" /\ r # f.maxR
                       THEN swapRow(mt, r, f.maxR) ELSE mt
                 isOob == f.c >= Cols(mt)
                 piv == IF isOob THEN gs[r] ELSE m1[r][f.c]
                 rowr == rowDiv(m1[r], piv)
                 pivAfter == IF isOob THEN gs[r] ELSE rowr[f.c]
                 at(r2) == IF isOob THEN gs[r2] ELSE m1[r2][f.c]
             IN  [m |-> [r2 \in DOMAIN mt |->
                            IF r2 = r THEN rowr
                            ELSE IF r2 > r /\ NonZero(at(r2))
                                 THEN rowSubMul(m1[r2], Div(at(r2), pivAfter), rowr)
                                 ELSE m1[r2]],
                  r |-> r + 1, c |-> f.c + 1,
                  done |-> (r + 1 >= Rows(mt)), oob |-> isOob]

\* rrefMat, lines 226-230: the column of the first nonzero entry, C if none
RECURSIVE rrefLead(_, _)
rrefLead(v, c) ==
    IF c >= Cardinality(DOMAIN v) THEN c
    ELSE IF NonZero(v[c]) THEN c ELSE rrefLead(v, c + 1)

\* rrefMat, lines 224-243: one iteration of the loop over r.  When the row
\* has no nonzero entry c = C and the reads of m[r][c] and m[r2][c] lie
\* outside the matrix: gs[i] is what the read of m[i][c] delivers.
rrefRow(mt, r, gs) ==
    LET c == rrefLead(mt[r], 0)
        isOob == c >= Cols(mt)
        lead == IF isOob THEN gs[r] ELSE mt[r][c]
        rowr == rowDiv(mt[r], lead)
        at(r2) == IF isOob THEN gs[r2] ELSE mt[r2][c]
    IN  IF ~NonZero(lead) THEN [m |-> mt, oob |-> isOob]
        ELSE [m |-> [r2 \in DOMAIN mt |->
                        IF r2 = r THEN rowr
                        ELSE IF r2 < r THEN rowSubMul(mt[r2], at(r2), rowr)
                        ELSE mt[r2]],
              oob |-> isOob]

\* analyzeRefMat: "//TODO  return 0;"
analyzeRefMat(mt) == 0

\* ================================================= Observable, ObservingPtr
\* An observer list is a sequence of pointer ids (std::vector<Observer<T>*>).

\* Observable::addObserver
addObserver(list, obs) == Append(list, obs)

\* Observable::removeObserver: std::remove erases every entry equal to &obs
removeObserver(list, obs) == SelectSeq(list, LAMBDA x : x # obs)

\* Observable::moveObserver: the first entry equal to &oldone becomes &newone
moveObserver(list, oldone, newone) ==
    LET hits == {i \in 1..Len(list) : list[i] = oldone}
    IN  IF hits = {} THEN list
        ELSE LET first == CHOOSE i \in hits : \A k \in hits : i <= k
             IN  [list EXCEPT ![first] = newone]

\* the observers registered in a list
Registered(list) == {list[i] : i \in 1..Len(list)}

\* ================================================================ Referenced
\* The counter is a std::atomic<unsigned int>: ++ and -- are one indivisible
\* read-modify-write each and deliver the value they stored.

\* a decrement that delivers the value it found
unrefPostDec(c) == [val |-> c - 1, cpy |-> c]

\* Referenced::ref: "return ++std::get<0>(members_)"
ref(c) == [val |-> c + 1, ret |-> c + 1]

\* Referenced::unref, line 64: "auto cpy = --std::get<0>(members_)"
unref(c) == [val |-> c - 1, cpy |-> c - 1]

\* Referenced::unref, line 65: "if(cpy == 0)" the deleter is called
unrefDeletes(x) == x = 0

\* ==================================================================== state
\* The calls of docs/tests/mat.cpp on one input matrix A: pivot on a working
\* copy (once, or again on the already pivoted copy), luDecomposition of the
\* pivoted copy, inverse(A) and inverse(L, U); or det(A).
VARIABLES
    A,        \* the input matrix
    m,        \* the working copy pivot is applied to
    before,   \* the working copy before the last pivot call
    psign,    \* the value the last pivot call returned
    swaps,    \* the number of swapRow calls of the last pivot call
    perm,     \* the row permutation of the last pivot call
    npivot,   \* the number of pivot calls so far
    lu,       \* the result of luDecomposition
    detv,     \* the result of det
    invA,     \* the result of inverse(A)
    invLU,    \* the result of inverse(L, U)
    pc        \* "input", "pivoted", "decomposed", "inverted", "done", "det"

luVars == <<A, m, before, psign, swaps, perm, npivot, lu, detv, invA, invLU, pc>>

\* The calls of refMat, rrefMat and analyzeRefMat on one input matrix.  refMat
\* and rrefMat advance one iteration of their loop over r at a time.
VARIABLES
    ein,      \* the matrix passed to refMat / rrefMat
    em,       \* the matrix, transformed in place
    emode,    \* the function called: "refMat" or "rrefMat"
    er,       \* the loop variable r
    ec,       \* refMat's c
    epc,      \* "input", "refloop", "refdone", "rrefloop", "rrefdone", "analyzed"
    oob,      \* an element outside the matrix has been read
    eres      \* the value analyzeRefMat returned

refVars == <<ein, em, emode, er, ec, epc, oob, eres>>

\* ObservingPtr objects 1..NumPtrs observing Observable objects 1..NumObjs;
\* the null pointer is 0.
VARIABLES
    ptrAlive,   \* ptrAlive[p]: the ObservingPtr p is constructed and not destroyed
    object_,    \* object_[p]: ObservingPtr::object_
    objAlive,   \* objAlive[o]: the Observable o is not destroyed
    observer_,  \* observer_[o]: Observable::observer_
    ub          \* a destroyed object has been accessed: the behaviour is undefined

obsVars == <<ptrAlive, object_, objAlive, observer_, ub>>

\* One Referenced object, constructed with count 0, and the threads 1..NumThreads
\* that call ref() and unref() on it.
VARIABLES
    count,       \* the atomic counter std::get<0>(members_)
    held,        \* held[t]: the references thread t holds
    tpc,         \* tpc[t]: "idle", or "check" inside unref after the decrement
    cpy,         \* cpy[t]: the local cpy of thread t's unref call
    own,         \* own[t]: the counter right after t's last increment / decrement
    retv,        \* retv[t]: the last call of t that returned, and its value
    deleted,     \* the threads that called the deleter, in order
    referenced,  \* ref() has been called on the object
    uaf          \* the object was used after its last unref: undefined behaviour

cntVars == <<count, held, tpc, cpy, own, retv, deleted, referenced, uaf>>

vars == <<luVars, refVars, obsVars, cntVars>>

NoMat == << >>
NoErr == [err |-> "unset", val |-> << >>]

\* the variables of the square-matrix calls while they are not in use
LuIdle ==
    /\ A = NoMat /\ m = NoMat /\ before = NoMat /\ psign = 1 /\ swaps = 0
    /\ perm = << >> /\ npivot = 0 /\ lu = [l |-> NoMat, u |-> NoMat]
    /\ detv = Zero /\ invA = NoErr /\ invLU = NoErr /\ pc = "idle"

\* the variables of refMat / rrefMat while they are not in use
RefIdle ==
    /\ ein = NoMat /\ em = NoMat /\ emode = "none" /\ er = 0 /\ ec = 0
    /\ epc = "idle" /\ oob = FALSE /\ eres = 0

\* the variables of the observers while they are not in use
ObsIdle ==
    /\ ptrAlive = << >> /\ object_ = << >> /\ objAlive = << >>
    /\ observer_ = << >> /\ ub = FALSE

\* the variables of the reference counter while they are not in use
CntIdle ==
    /\ count = 0 /\ held = << >> /\ tpc = << >> /\ cpy = << >> /\ own = << >>
    /\ retv = << >> /\ deleted = << >> /\ referenced = FALSE /\ uaf = FALSE

\* ===================================================== the square-matrix calls
\* the matrices of docs/tests/mat.cpp
TestLu3 == FromRows(<< <<2, 2, 3>>, <<1, 1, -1>>, <<1, 0, 2>> >>)
TestInv5 == FromRows(<< <<1, -2, 3, 5, 8>>, <<0, -1, -1, 2, 3>>, <<2, 4, -1, 3, 1>>,
                        <<0, 0, 5, 0, 0>>, <<1, 3, 0, 4, -1>> >>)
TestSing5 == FromRows(<< <<1, -2, 3, 5, 8>>, <<0, -1, -1, 0, 3>>, <<2, 4, -1, 10, 1>>,
                         <<0, 0, 5, 0, 0>>, <<1, 3, 0, 5, -1>> >>)

\* The enumerated D x D inputs.  Dimension 1 and 2: every entry ranges over
\* -MaxVal..MaxVal.  Dimension 3: every entry is 0 or 1.  Above: 0/1 band
\* matrices, only the three central diagonals vary and the rest is 0.
BandCells(D) == {ij \in (0..(D - 1)) \X (0..(D - 1)) : AbsInt(ij[1] - ij[2]) <= 1}

EnumInputs(D) ==
    IF D <= 2 THEN MatSet(D, D, (-MaxVal)..MaxVal)
    ELSE IF D <= 3 THEN MatSet(D, D, 0..1)
    ELSE {[i \in 0..(D - 1) |-> [j \in 0..(D - 1) |->
                IF <<i, j>> \in BandCells(D) THEN Int2Num(f[<<i, j>>]) ELSE Zero]] :
            f \in [BandCells(D) -> 0..1]}

SquareInputs ==
    UNION {EnumInputs(D) : D \in 1..MaxD} \cup {TestLu3, TestInv5, TestSing5}

LuInit ==
    /\ A \in SquareInputs
    /\ m = A
    /\ before = A
    /\ psign = 1
    /\ swaps = 0
    /\ perm = [i \in DOMAIN A |-> i]
    /\ npivot = 0
    /\ lu = [l |-> NoMat, u |-> NoMat]
    /\ detv = Zero
    /\ invA = NoErr
    /\ invLU = NoErr
    /\ pc = "input"

\* psign = pivot(cpy)
Pivot ==
    /\ pc \in {"input", "pivoted"}
    /\ npivot < MaxPivotCalls
    /\ LET p == pivot(m)
       IN  /\ before' = m
           /\ m' = p.m
           /\ psign' = p.ret
           /\ swaps' = p.swaps
           /\ perm' = p.perm
    /\ npivot' = npivot + 1
    /\ pc' = "pivoted"
    /\ UNCHANGED <<A, lu, detv, invA, invLU>>
    /\ UNCHANGED <<refVars, obsVars, cntVars>>

\* luMats = luDecomposition(cpy)
LuDecomposition ==
    /\ pc = "pivoted"
    /\ lu' = luDecomposition(m)
    /\ pc' = "decomposed"
    /\ UNCHANGED <<A, m, before, psign, swaps, perm, npivot, detv, invA, invLU>>
    /\ UNCHANGED <<refVars, obsVars, cntVars>>

\* det(A)
Det ==
    /\ pc = "input"
    /\ detv' = det(A)
    /\ pc' = "det"
    /\ UNCHANGED <<A, m, before, psign, swaps, perm, npivot, lu, invA, invLU>>
    /\ UNCHANGED <<refVars, obsVars, cntVars>>

\* inverse(A)
InverseMat ==
    /\ pc = "decomposed"
    /\ invA' = inverseMat(A)
    /\ pc' = "inverted"
    /\ UNCHANGED <<A, m, before, psign, swaps, perm, npivot, lu, detv, invLU>>
    /\ UNCHANGED <<refVars, obsVars, cntVars>>

\* inverse(L, U)
InverseLU ==
    /\ pc = "inverted"
    /\ invLU' = inverseLU(lu.l, lu.u)
    /\ pc' = "done"
    /\ UNCHANGED <<A, m, before, psign, swaps, perm, npivot, lu, detv, invA>>
    /\ UNCHANGED <<refVars, obsVars, cntVars>>

\* ============================================ the calls of refMat and rrefMat
\* the matrices of docs/tests/mat.cpp, echolon
TestEchelon == FromRows(<< <<2, 1, -1, 8, 80>>, <<-3, -1, 2, -11, -110>>,
                           <<-2, 1, 2, -3, -30>> >>)
TestReduced == FromRows(<< <<1, 0, 0, 2, 20>>, <<0, 1, 0, 3, 30>>,
                           <<0, 0, 1, -1, -10>> >>)

\* The enumerated R x C inputs: entries in -MaxVal..MaxVal when R, C <= 2,
\* entries 0 or 1 otherwise.
Shapes ==
    {rc \in (1..MaxR) \X (1..MaxC) : rc[1] * rc[2] <= MaxCells}

RectInputs ==
    UNION {MatSet(rc[1], rc[2],
                  IF rc[1] <= 2 /\ rc[2] <= 2 THEN (-MaxVal)..MaxVal ELSE 0..1) :
           rc \in Shapes}
    \cup {TestEchelon}

RefInit ==
    /\ ein \in RectInputs
    /\ em = ein
    /\ emode = "none"
    /\ er = 0
    /\ ec = 0
    /\ epc = "input"
    /\ oob = FALSE
    /\ eres = 0

\* refMat(m)
CallRefMat ==
    /\ epc = "input"
    /\ emode' = "refMat"
    /\ epc' = "refloop"
    /\ er' = 0
    /\ ec' = 0
    /\ UNCHANGED <<ein, em, oob, eres>>
    /\ UNCHANGED <<luVars, obsVars, cntVars>>

\* rrefMat(m), which starts with refMat(m)
CallRrefMat ==
    /\ epc = "input"
    /\ emode' = "rrefMat"
    /\ epc' = "refloop"
    /\ er' = 0
    /\ ec' = 0
    /\ UNCHANGED <<ein, em, oob, eres>>
    /\ UNCHANGED <<luVars, obsVars, cntVars>>

\* one iteration of refMat's loop over r; on its end refMat returns, and
\* rrefMat goes on with its loop from r = R - 1
RefMatRow ==
    /\ epc = "refloop"
    /\ \E gs \in IF ec >= Cols(em) THEN [er..(Rows(em) - 1) -> Garbage]
                 ELSE {[i \in er..(Rows(em) - 1) |-> Zero]} :
         LET s == refRow(em, er, ec, gs)
         IN  /\ em' = s.m
             /\ oob' = (oob \/ s.oob)
             /\ ec' = s.c
             /\ IF ~s.done THEN er' = s.r /\ epc' = "refloop"
                ELSE IF emode = "refMat" THEN er' = s.r /\ epc' = "refdone"
                ELSE er' = Rows(em) - 1 /\ epc' = "rrefloop"
    /\ UNCHANGED <<ein, emode, eres>>
    /\ UNCHANGED <<luVars, obsVars, cntVars>>

\* one iteration of rrefMat's loop over r
RrefMatRow ==
    /\ epc = "rrefloop"
    /\ \E gs \in IF rrefLead(em[er], 0) >= Cols(em) THEN [0..er -> Garbage]
                 ELSE {[i \in 0..er |-> Zero]} :
         LET s == rrefRow(em, er, gs)
         IN  /\ em' = s.m
             /\ oob' = (oob \/ s.oob)
    /\ er' = er - 1
    /\ epc' = IF er - 1 >= 0 THEN "rrefloop" ELSE "rrefdone"
    /\ UNCHANGED <<ein, emode, ec, eres>>
    /\ UNCHANGED <<luVars, obsVars, cntVars>>

\* analyzeRefMat(m) on the matrix refMat left
AnalyzeRefMat ==
    /\ epc = "refdone"
    /\ eres' = analyzeRefMat(em)
    /\ epc' = "analyzed"
    /\ UNCHANGED <<ein, em, emode, er, ec, oob>>
    /\ UNCHANGED <<luVars, obsVars, cntVars>>

\* ============================================================== the observers
Null == 0
Ptrs == 1..NumPtrs
Objs == 1..NumObjs

ObsInit ==
    /\ ptrAlive = [p \in Ptrs |-> FALSE]
    /\ object_ = [p \in Ptrs |-> Null]
    /\ objAlive = [o \in Objs |-> TRUE]
    /\ observer_ = [o \in Objs |-> << >>]
    /\ ub = FALSE

\* the pointer p holds the address of a destroyed object
Dangling(p) == object_[p] # Null /\ ~objAlive[object_[p]]

\* an access through a dangling pointer: undefined behaviour, the model stops
Undefined ==
    /\ ub' = TRUE
    /\ UNCHANGED <<ptrAlive, object_, objAlive, observer_>>

\* ObservingPtr::reset(T* obj) as a state change; obj may be Null
ResetTo(p, obj) ==
    LET added == IF obj # Null
                 THEN [observer_ EXCEPT ![obj] = addObserver(@, p)]
                 ELSE observer_
        removed == IF object_[p] # Null
                   THEN [added EXCEPT ![object_[p]] = removeObserver(@, p)]
                   ELSE added
    IN  /\ observer_' = removed
        /\ object_' = [object_ EXCEPT ![p] = obj]
        /\ UNCHANGED <<ptrAlive, objAlive, ub>>

\* ObservingPtr() and ObservingPtr(T* obj) / ObservingPtr(T& obj)
Construct(p, obj) ==
    /\ ~ub /\ ~ptrAlive[p]
    /\ obj # Null => objAlive[obj]
    /\ ptrAlive' = [ptrAlive EXCEPT ![p] = TRUE]
    /\ object_' = [object_ EXCEPT ![p] = obj]
    /\ observer_' = IF obj # Null
                    THEN [observer_ EXCEPT ![obj] = addObserver(@, p)]
                    ELSE observer_
    /\ UNCHANGED <<objAlive, ub>>
    /\ UNCHANGED <<luVars, refVars, cntVars>>

\* ~ObservingPtr()
Destruct(p) ==
    /\ ~ub /\ ptrAlive[p]
    /\ IF Dangling(p) THEN Undefined
       ELSE /\ ptrAlive' = [ptrAlive EXCEPT ![p] = FALSE]
            /\ object_' = [object_ EXCEPT ![p] = Null]
            /\ observer_' = IF object_[p] # Null
                            THEN [observer_ EXCEPT ![object_[p]] = removeObserver(@, p)]
                            ELSE observer_
            /\ UNCHANGED <<objAlive, ub>>
    /\ UNCHANGED <<luVars, refVars, cntVars>>

\* ObservingPtr(const ObservingPtr& other)
CopyConstruct(p, other) ==
    /\ ~ub /\ ~ptrAlive[p] /\ ptrAlive[other]
    /\ IF Dangling(other) THEN Undefined
       ELSE /\ ptrAlive' = [ptrAlive EXCEPT ![p] = TRUE]
            /\ object_' = [object_ EXCEPT ![p] = object_[other]]
            /\ observer_' = IF object_[other] # Null
                            THEN [observer_ EXCEPT ![object_[other]] = addObserver(@, p)]
                            ELSE observer_
            /\ UNCHANGED <<objAlive, ub>>
    /\ UNCHANGED <<luVars, refVars, cntVars>>

\* operator=(const ObservingPtr& other): reset(other.object_)
CopyAssign(p, other) ==
    /\ ~ub /\ ptrAlive[p] /\ ptrAlive[other]
    /\ IF Dangling(p) \/ Dangling(other) THEN Undefined
       ELSE ResetTo(p, object_[other])
    /\ UNCHANGED <<luVars, refVars, cntVars>>

\* ObservingPtr(ObservingPtr&& other)
MoveConstruct(p, other) ==
    /\ ~ub /\ ~ptrAlive[p] /\ ptrAlive[other]
    /\ IF Dangling(other) THEN Undefined
       ELSE /\ ptrAlive' = [ptrAlive EXCEPT ![p] = TRUE]
            /\ object_' = [object_ EXCEPT ![p] = object_[other], ![other] = Null]
            /\ observer_' = IF object_[other] # Null
                            THEN [observer_ EXCEPT
                                    ![object_[other]] = moveObserver(@, other, p)]
                            ELSE observer_
            /\ UNCHANGED <<objAlive, ub>>
    /\ UNCHANGED <<luVars, refVars, cntVars>>

\* operator=(ObservingPtr&& other): reset(); object_ = other.object_;
\* moveObserver(other, *this); other.object_ = nullptr
MoveAssign(p, other) ==
    /\ ~ub /\ ptrAlive[p] /\ ptrAlive[other]
    /\ IF Dangling(p) \/ Dangling(other) THEN Undefined
       ELSE LET afterReset == IF object_[p] # Null
                              THEN [observer_ EXCEPT ![object_[p]] = removeObserver(@, p)]
                              ELSE observer_
                objReset == [object_ EXCEPT ![p] = Null]
                obj == objReset[other]
            IN  /\ observer_' = IF obj # Null
                                THEN [afterReset EXCEPT ![obj] = moveObserver(@, other, p)]
                                ELSE afterReset
                /\ object_' = [[objReset EXCEPT ![p] = obj] EXCEPT ![other] = Null]
                /\ UNCHANGED <<ptrAlive, objAlive, ub>>
    /\ UNCHANGED <<luVars, refVars, cntVars>>

\* reset(T* obj) and reset(T& obj)
Reset(p, obj) ==
    /\ ~ub /\ ptrAlive[p]
    /\ obj # Null => objAlive[obj]
    /\ IF Dangling(p) THEN Undefined ELSE ResetTo(p, obj)
    /\ UNCHANGED <<luVars, refVars, cntVars>>

\* swap(a, b)
Swap(a, b) ==
    /\ ~ub /\ ptrAlive[a] /\ ptrAlive[b]
    /\ IF Dangling(a) \/ Dangling(b) THEN Undefined
       ELSE LET first == IF object_[a] # Null
                         THEN [observer_ EXCEPT ![object_[a]] = moveObserver(@, a, b)]
                         ELSE observer_
                second == IF object_[b] # Null
                          THEN [first EXCEPT ![object_[b]] = moveObserver(@, b, a)]
                          ELSE first
            IN  /\ observer_' = second
                /\ object_' = [object_ EXCEPT ![a] = object_[b], ![b] = object_[a]]
                /\ UNCHANGED <<ptrAlive, objAlive, ub>>
    /\ UNCHANGED <<luVars, refVars, cntVars>>

\* ~Observable(): every registered observer gets observeDestruction, which
\* sets its object_ to nullptr
DestroyObservable(o) ==
    /\ ~ub /\ objAlive[o]
    /\ IF \E p \in Registered(observer_[o]) : ~ptrAlive[p] THEN Undefined
       ELSE /\ objAlive' = [objAlive EXCEPT ![o] = FALSE]
            /\ observer_' = [observer_ EXCEPT ![o] = << >>]
            /\ object_' = [p \in Ptrs |->
                            IF p \in Registered(observer_[o]) THEN Null ELSE object_[p]]
            /\ UNCHANGED <<ptrAlive, ub>>
    /\ UNCHANGED <<luVars, refVars, cntVars>>

\* ===================================================== the reference counter
Threads == 1..NumThreads

\* Referenced(deleter = {}, count = 0)
CntInit ==
    /\ count = 0
    /\ held = [t \in Threads |-> 0]
    /\ tpc = [t \in Threads |-> "idle"]
    /\ cpy = [t \in Threads |-> 0]
    /\ own = [t \in Threads |-> 0]
    /\ retv = [t \in Threads |-> [op |-> "none", val |-> 0]]
    /\ deleted = << >>
    /\ referenced = FALSE
    /\ uaf = FALSE

\* Thread t calls ref(), as IntrusivePtr(T*), IntrusivePtr(T&), the copy
\* constructor and reset do.  Once the count has gone back to 0 the object is
\* deleted or about to be: a call on it is undefined behaviour (lines 57-58).
Ref(t) ==
    /\ ~uaf /\ tpc[t] = "idle"
    /\ count < MaxRefs
    /\ IF referenced /\ count = 0
       THEN /\ uaf' = TRUE
            /\ UNCHANGED <<count, held, tpc, cpy, own, retv, deleted, referenced>>
       ELSE /\ count' = ref(count).val
            /\ own' = [own EXCEPT ![t] = ref(count).val]
            /\ retv' = [retv EXCEPT ![t] = [op |-> "ref", val |-> ref(count).ret]]
            /\ held' = [held EXCEPT ![t] = @ + 1]
            /\ referenced' = TRUE
            /\ UNCHANGED <<tpc, cpy, deleted, uaf>>
    /\ UNCHANGED <<luVars, refVars, obsVars>>

\* Thread t calls unref() on a reference it holds, as ~IntrusivePtr, the move
\* assignment and reset do: the atomic decrement of line 64
UnrefDecrement(t) ==
    /\ ~uaf /\ tpc[t] = "idle"
    /\ held[t] > 0
    /\ count' = unref(count).val
    /\ own' = [own EXCEPT ![t] = unref(count).val]
    /\ cpy' = [cpy EXCEPT ![t] = unref(count).cpy]
    /\ held' = [held EXCEPT ![t] = @ - 1]
    /\ tpc' = [tpc EXCEPT ![t] = "check"]
    /\ UNCHANGED <<retv, deleted, referenced, uaf>>
    /\ UNCHANGED <<luVars, refVars, obsVars>>

\* unref(), lines 65-66: the deleter is called if cpy is 0, and cpy returned
UnrefReturn(t) ==
    /\ ~uaf /\ tpc[t] = "check"
    /\ deleted' = IF unrefDeletes(cpy[t]) THEN Append(deleted, t) ELSE deleted
    /\ retv' = [retv EXCEPT ![t] = [op |-> "unref", val |-> cpy[t]]]
    /\ tpc' = [tpc EXCEPT ![t] = "idle"]
    /\ UNCHANGED <<count, held, cpy, own, referenced, uaf>>
    /\ UNCHANGED <<luVars, refVars, obsVars>>

\* =========================================================== specifications
\* pivot, luDecomposition, det, inverse on a square input
Init == LuInit /\ RefIdle /\ ObsIdle /\ CntIdle

Next == Pivot \/ LuDecomposition \/ Det \/ InverseMat \/ InverseLU

Spec == Init /\ [][Next]_vars

\* refMat, rrefMat, analyzeRefMat on a rectangular input
EchelonInit == RefInit /\ LuIdle /\ ObsIdle /\ CntIdle

EchelonNext == CallRefMat \/ CallRrefMat \/ RefMatRow \/ RrefMatRow \/ AnalyzeRefMat

SpecEchelon == EchelonInit /\ [][EchelonNext]_vars

\* ObservingPtr and Observable objects
ObserveInit == ObsInit /\ LuIdle /\ RefIdle /\ CntIdle

ObserveNext ==
    \/ \E p \in Ptrs, obj \in Objs \cup {Null} : Construct(p, obj)
    \/ \E p \in Ptrs : Destruct(p)
    \/ \E p \in Ptrs, other \in Ptrs : CopyConstruct(p, other)
    \/ \E p \in Ptrs, other \in Ptrs : CopyAssign(p, other)
    \/ \E p \in Ptrs, other \in Ptrs : MoveConstruct(p, other)
    \/ \E p \in Ptrs, other \in Ptrs : MoveAssign(p, other)
    \/ \E p \in Ptrs, obj \in Objs \cup {Null} : Reset(p, obj)
    \/ \E a \in Ptrs, b \in Ptrs : Swap(a, b)
    \/ \E o \in Objs : DestroyObservable(o)

SpecObserve == ObserveInit /\ [][ObserveNext]_vars

\* concurrent ref() and unref() calls on one Referenced object
ReferencedInit == CntInit /\ LuIdle /\ RefIdle /\ ObsIdle

ReferencedNext ==
    \/ \E t \in Threads : Ref(t)
    \/ \E t \in Threads : UnrefDecrement(t)
    \/ \E t \in Threads : UnrefReturn(t)

SpecReferenced == ReferencedInit /\ [][ReferencedNext]_vars

\* ------------------------------------------- properties of the square calls
\* the matrix a without row 0 and column j
Minor(a, j) ==
    [i \in 0..(Rows(a) - 2) |-> [k \in 0..(Rows(a) - 2) |->
        a[i + 1][IF k < j THEN k ELSE k + 1]]]

\* the determinant of an integer matrix by expansion along row 0
RECURSIVE MathDet(_)
RECURSIVE MathDetSum(_, _)
MathDetSum(a, j) ==
    IF j < 0 THEN 0
    ELSE MathDetSum(a, j - 1)
         + (IF j % 2 = 0 THEN 1 ELSE -1) * a[0][j].n * MathDet(Minor(a, j))

MathDet(a) == IF Rows(a) = 1 THEN a[0][0].n ELSE MathDetSum(a, Rows(a) - 1)

\* the rows of a in the order s: row i is a[s[i]]
PermRows(a, s) == [i \in DOMAIN a |-> a[s[i]]]

\* the sign of the permutation s: -1 to the number of inversions
PermSign(s) ==
    LET inv == {ij \in (DOMAIN s) \X (DOMAIN s) : ij[1] < ij[2] /\ s[ij[1]] > s[ij[2]]}
    IN  IF Cardinality(inv) % 2 = 0 THEN 1 ELSE -1

AllFinite(a) == \A i \in DOMAIN a : \A j \in DOMAIN a[i] : IsFinite(a[i][j])

\* C1: for every square A, with P the row permutation pivot applies to the
\* working copy and (L, U) = luDecomposition(pivoted copy), L U = P A.
C1_LuProductIsPA ==
    (pc = "decomposed" /\ npivot = 1)
        => matMul(lu.l, lu.u) = PermRows(A, perm)

\* C2: for every square A, det(A) is the determinant of A (-135 for the
\* 5 x 5 matrix of the test).
C2_DetIsDeterminant ==
    pc = "det" => detv = Int2Num(MathDet(A))

\* C3: for every singular square A, det(A) meets no division by zero and no
\* undefined intermediate value and returns exactly 0.
C3_SingularDetIsZero ==
    (pc = "det" /\ MathDet(A) = 0)
        => /\ detv = Zero
           /\ LET f == luDecomposition(pivot(A).m)
              IN  AllFinite(f.l) /\ AllFinite(f.u)

\* C4: after pivot(m), |m[c][c]| >= |m[r][c]| for every c and every r >= c,
\* and the rows of m are a permutation of the rows before the call.
C4_PivotDiagonalMax ==
    pc = "pivoted" =>
        /\ \A c \in DOMAIN m : \A r \in DOMAIN m :
                r >= c => ~Gt(AbsNum(m[r][c]), AbsNum(m[c][c]))
        /\ \E s \in Permutations(DOMAIN m) : m = PermRows(before, s)

C4_Witness ==
    pc = "pivoted" /\ npivot = 1 /\ swaps = 2 /\ Rows(m) = 3

\* C5: pivot returns +1 or -1, equal to (-1)^(number of row swaps), which is
\* the sign of the row permutation taking the input to the output, i.e. the
\* determinant of its permutation matrix.
C5_PivotSign ==
    pc = "pivoted" =>
        /\ psign \in {1, -1}
        /\ psign = (IF swaps % 2 = 0 THEN 1 ELSE -1)
        /\ m = PermRows(before, perm)
        /\ psign = PermSign(perm)
        /\ psign = MathDet(permMat(perm))

C5_Witness ==
    /\ pc = "pivoted" /\ npivot = 1 /\ swaps = 2 /\ psign = 1
    /\ perm # [i \in DOMAIN m |-> i]

\* C7: pivot applied to an already pivoted matrix B swaps nothing, returns +1
\* and leaves B unchanged, so luDecomposition yields the same L and U.
C7_RepivotIdempotent ==
    (pc = "pivoted" /\ npivot >= 2) =>
        /\ swaps = 0
        /\ psign = 1
        /\ perm = [i \in DOMAIN m |-> i]
        /\ m = before
        /\ luDecomposition(m) = luDecomposition(before)

C7_Witness ==
    pc = "pivoted" /\ npivot = 2 /\ m # A /\ m = before

\* C15: for every square input of dimension D, luDecomposition returns L and
\* U of dimension D x D, L with L[i][i] = 1 and L[i][j] = 0 for j > i, U with
\* U[i][j] = 0 for j < i, and the input matrix is not modified.
C15_LuTriangular ==
    pc = "decomposed" =>
        LET D == Rows(m)
            IsDxD(x) == DOMAIN x = 0..(D - 1)
                        /\ \A i \in DOMAIN x : DOMAIN x[i] = 0..(D - 1)
        IN  /\ IsDxD(lu.l) /\ IsDxD(lu.u)
            /\ \A i \in 0..(D - 1) : lu.l[i][i] = One
            /\ \A i \in 0..(D - 1) : \A j \in 0..(D - 1) :
                    /\ j > i => lu.l[i][j] = Zero
                    /\ j < i => lu.u[i][j] = Zero
            /\ m = pivot(before).m

\* a 3 x 3 input whose factors hold a value that is not finite, and a
\* nonzero entry below the diagonal of L
C15_Witness ==
    /\ pc = "decomposed" /\ Rows(m) = 3
    /\ ~AllFinite(lu.u)
    /\ \E i \in 0..2 : \E j \in 0..2 : j < i /\ lu.l[i][j] # Zero

LeadCol(a, i) ==
    LET nz == {j \in DOMAIN a[i] : a[i][j] # Zero}
    IN  IF nz = {} THEN Cols(a) ELSE CHOOSE j \in nz : \A k \in nz : j <= k

\* row echelon form: leading entries move strictly right going down and zero
\* rows are at the bottom
IsRef(a) ==
    \A i \in DOMAIN a : \A k \in DOMAIN a :
        (i < k /\ LeadCol(a, k) < Cols(a)) => LeadCol(a, i) < LeadCol(a, k)

\* reduced row echelon form: moreover every leading entry is 1 and is the
\* only nonzero entry of its column
IsRref(a) ==
    /\ IsRef(a)
    /\ \A i \in DOMAIN a :
            LeadCol(a, i) < Cols(a) =>
                /\ a[i][LeadCol(a, i)] = One
                /\ \A k \in DOMAIN a : k # i => a[k][LeadCol(a, i)] = Zero

\* Gauss-Jordan elimination of a finite matrix from row r and column c on
RECURSIVE GaussJordan(_, _, _)
GaussJordan(a, r, c) ==
    IF r >= Rows(a) \/ c >= Cols(a) THEN a
    ELSE LET cand == {i \in r..(Rows(a) - 1) : a[i][c] # Zero}
         IN  IF cand = {} THEN GaussJordan(a, r, c + 1)
             ELSE LET p == CHOOSE i \in cand : \A k \in cand : i <= k
                      a1 == [a EXCEPT ![r] = a[p], ![p] = a[r]]
                      rowr == [j \in DOMAIN a1[r] |-> Div(a1[r][j], a1[r][c])]
                      a2 == [i \in DOMAIN a |->
                                IF i = r THEN rowr
                                ELSE [j \in DOMAIN a1[i] |->
                                        Sub(a1[i][j], Mul(a1[i][c], rowr[j]))]]
                  IN  GaussJordan(a2, r + 1, c + 1)

\* the reduced row echelon form of a: the one matrix in that form that is
\* row-equivalent to a
MathRref(a) == GaussJordan(a, 0, 0)

\* C6: for every R x C matrix A, rrefMat turns A into the reduced row echelon
\* form of A (row-equivalent to A, leading entries 1 and alone in their
\* column, moving strictly right, zero rows at the bottom); the 3 x 5 matrix
\* of the test becomes [[1,0,0,2,20],[0,1,0,3,30],[0,0,1,-1,-10]].
C6_RrefIsReducedEchelon ==
    epc = "rrefdone" =>
        /\ IsRref(em)
        /\ em = MathRref(ein)
        /\ ein = TestEchelon => em = TestReduced

\* the solutions of the linear system of an augmented matrix in row echelon
\* form: 0 none, 1 exactly one, 2 infinitely many
Classify(a) ==
    LET coef == 0..(Cols(a) - 2)
        rhs == Cols(a) - 1
        contradictory ==
            \E i \in DOMAIN a : (\A j \in coef : a[i][j] = Zero) /\ a[i][rhs] # Zero
        pivots == {i \in DOMAIN a : \E j \in coef : a[i][j] # Zero}
    IN  IF contradictory THEN 0
        ELSE IF Cardinality(pivots) = Cardinality(coef) THEN 1
        ELSE 2

\* C9: analyzeRefMat(m), for an augmented matrix m in row echelon form,
\* returns 0 if the system has no solution, 1 if it has exactly one and 2 if
\* it has infinitely many.
C9_AnalyzeClassifies ==
    (epc = "analyzed" /\ ~oob /\ Cols(em) >= 2 /\ IsRef(em))
        => eres = Classify(em)

\* the rows of a with a nonzero entry
PivotRows(a) == {i \in DOMAIN a : LeadCol(a, i) < Cols(a)}

\* C12: for every R x C matrix refMat leaves the matrix in row echelon form,
\* row-equivalent to the input: pivot columns strictly increase, every pivot
\* is exactly 1, every entry below a pivot is 0, and a rank-deficient input
\* ends with fewer pivots than rows.
C12_RefMatEchelon ==
    (emode = "refMat" /\ epc = "refdone") =>
        /\ IsRef(em)
        /\ \A i \in PivotRows(em) :
                /\ em[i][LeadCol(em, i)] = One
                /\ \A k \in DOMAIN em : k > i => em[k][LeadCol(em, i)] = Zero
        /\ MathRref(em) = MathRref(ein)
        /\ Cardinality(PivotRows(em)) = Cardinality(PivotRows(MathRref(ein)))

\* C13: for every shape R x C, also with more rows than columns, every
\* element access m[r][c] of refMat has r < R and c < C, and no row is
\* divided by an entry outside the matrix.
C13_RefMatInBounds ==
    emode = "refMat" => ~oob

\* C14: in the bottom-to-top pass of rrefMat a row with no nonzero entry is
\* skipped: it is not modified and no element outside the matrix is read,
\* the column index of m[r][c] stays below C.
C14_ZeroRowSkipped ==
    (epc = "rrefloop" /\ ~oob /\ LeadCol(em, er) = Cols(em)) =>
        \A gs \in [0..er -> Garbage] :
            /\ rrefLead(em[er], 0) < Cols(em)
            /\ ~rrefRow(em, er, gs).oob
            /\ rrefRow(em, er, gs).m = em

\* --------------------------------------------- properties of the observers
\* C10: every ObservingPtr with a non-null object_ is registered in the
\* observer list of that object, and so never holds a destroyed object.
C10_PointerKnowsLifetime ==
    ~ub => \A p \in Ptrs :
            (ptrAlive[p] /\ object_[p] # Null) =>
                /\ objAlive[object_[p]]
                /\ p \in Registered(observer_[object_[p]])

\* ------------------------------------ properties of the reference counter
\* every reference has been given back and no call is running
Released ==
    referenced /\ \A t \in Threads : held[t] = 0 /\ tpc[t] = "idle"

====
